---- MODULE Spec2Model ----
(***************************************************************************)
(* A model of the Sora video-generation client: the constraint validator   *)
(* (validation.py) and the client operations built on it (client.py).      *)
(*                                                                         *)
(* Python values are modelled as follows.  An optional value (a dict key   *)
(* that may be absent, a field that may be None) is a sequence of length   *)
(* 0 (None) or 1 (the value).  A dict with the keys the code reads is a    *)
(* record of optional values, an absent key being None.  A message is a    *)
(* sequence of string fragments, so that "the message contains the text"   *)
(* is a statement about a contiguous run of fragments.                     *)
(***************************************************************************)
EXTENDS Integers, Sequences, FiniteSets, TLC

VARIABLES
    op,            \* the operation the caller is running
    pc,            \* the position inside it: "idle", a suspension point, "done"
    request,       \* the request given to create_video_generation_job / validate_request
    vargs,         \* the arguments <<width, height, variants>> of a direct validate_variants call
    checked,       \* the checks validate_request evaluated, in order
    session,       \* SoraClient._session: None or the number of the session it holds
    sessions,      \* the sessions the client has created, in order: "open" or "closed"
    got_session,   \* whether the running call has gone through _get_session
    wire,          \* the HTTP requests the running call has issued, in order
    max_polls,     \* poll_job_until_complete: max_polls (None or a number)
    polls,         \* poll_job_until_complete: polls
    job,           \* poll_job_until_complete: the job last fetched (None before)
    fetched,       \* the statuses of the jobs fetched by the running poll, in order
    last_response, \* the HTTP response the running call received last (None before)
    files,         \* the files written by save_video_content / save_gif_content
    result,        \* how the last finished call ended
    tasks,         \* concurrent use of the client: the position of each task
    cli,           \* the command-line workflow (examples/cli.py): its position and locals
    remote         \* the status of the job on the service, as a poll observes it

vars == <<op, pc, request, vargs, checked, session, sessions, got_session, wire,
          max_polls, polls, job, fetched, last_response, files, result, tasks, cli, remote>>

\* the state that a call of the sequential client leaves alone
elsewhere == <<tasks, cli, remote>>

----------------------------------------------------------------------------
(* Python values *)

None == <<>>

Some(v) == <<v>>

Digit(d) ==
    CASE d = 0 -> "0" [] d = 1 -> "1" [] d = 2 -> "2" [] d = 3 -> "3"
      [] d = 4 -> "4" [] d = 5 -> "5" [] d = 6 -> "6" [] d = 7 -> "7"
      [] d = 8 -> "8" [] d = 9 -> "9"

RECURSIVE NatStr(_)
NatStr(n) == IF n < 10 THEN Digit(n) ELSE NatStr(n \div 10) \o Digit(n % 10)

\* str(n) of an int
IntStr(n) == IF n < 0 THEN "-" \o NatStr(-n) ELSE NatStr(n)

\* str(v) / f"{v}" of an optional int
PyStr(v) == IF v = None THEN "None" ELSE IntStr(v[1])

\* s contains the fragments of t as a contiguous run
Contains(s, t) ==
    \E i \in 0..(Len(s) - Len(t)) : \A k \in 1..Len(t) : s[i + k] = t[k]

----------------------------------------------------------------------------
(* validation.py *)

SUPPORTED_RESOLUTIONS ==
    << <<480, 480>>, <<480, 854>>, <<854, 480>>,
       <<720, 720>>, <<720, 1280>>, <<1280, 720>>,
       <<1080, 1080>>, <<1080, 1920>>, <<1920, 1080>> >>

MIN_DURATION == 1

MAX_DURATION == 20

MAX_VARIANTS == [c \in {"1080p", "720p", "other"} |->
                    CASE c = "1080p" -> 1 [] c = "720p" -> 2 [] c = "other" -> 4]

\* what a validator call does: it returns, or raises ValidationError with a
\* message, or fails with the TypeError of comparing None with a number
Ok == [kind |-> "ok", message |-> <<>>]

ValidationError(msg) == [kind |-> "ValidationError", message |-> msg]

NotSupported(operator) ==
    [kind |-> "TypeError",
     message |-> <<"'" \o operator
                       \o "' not supported between instances of 'NoneType' and 'int'">>]

\* duration < MIN_DURATION on a duration that is None
TypeError == NotSupported("<")

\* the category with "and" in place of "or"
_get_resolution_category_both(width, height) ==
    IF width >= 1080 /\ height >= 1080 THEN "1080p"
    ELSE IF width >= 720 /\ height >= 720 THEN "720p"
    ELSE "other"

_get_resolution_category(width, height) ==
    IF width >= 1080 \/ height >= 1080 THEN "1080p"
    ELSE IF width >= 720 \/ height >= 720 THEN "720p"
    ELSE "other"

RECURSIVE SupportedStrFrom(_)
SupportedStrFrom(i) ==
    LET one == IntStr(SUPPORTED_RESOLUTIONS[i][1]) \o "x" \o IntStr(SUPPORTED_RESOLUTIONS[i][2])
    IN  IF i = Len(SUPPORTED_RESOLUTIONS) THEN one
        ELSE one \o ", " \o SupportedStrFrom(i + 1)

\* ", ".join(f"{w}x{h}" for w, h in SUPPORTED_RESOLUTIONS)
supported_str == SupportedStrFrom(1)

\* width, height: optional ints
validate_resolution(width, height) ==
    IF \/ width = None
       \/ height = None
       \/ \A i \in 1..Len(SUPPORTED_RESOLUTIONS) :
              SUPPORTED_RESOLUTIONS[i] # <<width[1], height[1]>>
    THEN ValidationError(<<"Resolution ", PyStr(width), "x", PyStr(height),
                           " is not supported. Supported resolutions: ",
                           supported_str>>)
    ELSE Ok

\* duration: optional int
validate_duration(width, height, duration) ==
    IF duration = None THEN TypeError
    ELSE IF duration[1] < MIN_DURATION
    THEN ValidationError(<<"Duration must be at least ", IntStr(MIN_DURATION),
                           " second. Got ", PyStr(duration), " seconds.">>)
    ELSE IF duration[1] > MAX_DURATION
    THEN ValidationError(<<"Duration must be at most ", IntStr(MAX_DURATION),
                           " seconds. Got ", PyStr(duration), " seconds.">>)
    ELSE Ok

\* width, height: ints; variants: optional int
validate_variants(width, height, variants) ==
    IF variants = None THEN NotSupported("<=")
    ELSE IF variants[1] <= 0
    THEN ValidationError(<<"Number of variants must be greater than 0.">>)
    ELSE LET category == _get_resolution_category(width, height)
             max_variants == MAX_VARIANTS[category]
         IN  IF variants[1] > max_variants
             THEN IF category = "1080p"
                  THEN ValidationError(<<"1080p resolutions only support 1 variant. Got ",
                                         PyStr(variants), " variants.">>)
                  ELSE IF category = "720p"
                  THEN ValidationError(<<"720p resolutions support maximum ",
                                         IntStr(max_variants), " variants. Got ",
                                         PyStr(variants), " variants.">>)
                  ELSE ValidationError(<<"This resolution supports maximum ",
                                         IntStr(max_variants), " variants. Got ",
                                         PyStr(variants), " variants.">>)
             ELSE Ok

get_max_variants_for_resolution(width, height) ==
    MAX_VARIANTS[_get_resolution_category(width, height)]

\* dict.get(key) and dict.get(key, default) on a record of optional values
Get(d, key) == d[key]

GetDefault(d, key, default) == IF d[key] = None THEN default ELSE d[key]

\* validate_request with the duration checked before the resolution
validate_request_duration_first(request_data) ==
    LET width == Get(request_data, "width")
        height == Get(request_data, "height")
        n_seconds == Get(request_data, "n_seconds")
        n_variants == GetDefault(request_data, "n_variants", Some(1))
        r1 == validate_duration(width, height, n_seconds)
        r2 == validate_resolution(width, height)
        r3 == validate_variants(width[1], height[1], n_variants)
    IN  IF r1.kind # "ok" THEN [outcome |-> r1, checks |-> <<"duration">>]
        ELSE IF r2.kind # "ok" THEN [outcome |-> r2, checks |-> <<"duration", "resolution">>]
        ELSE [outcome |-> r3, checks |-> <<"duration", "resolution", "variants">>]

\* validate_request: the outcome of the first check that does not return,
\* with the checks that were evaluated
validate_request(request_data) ==
    LET width == Get(request_data, "width")
        height == Get(request_data, "height")
        n_seconds == Get(request_data, "n_seconds")
        n_variants == GetDefault(request_data, "n_variants", Some(1))
        r1 == validate_resolution(width, height)
        r2 == validate_duration(width, height, n_seconds)
        r3 == validate_variants(width[1], height[1], n_variants)
    IN  IF r1.kind # "ok" THEN [outcome |-> r1, checks |-> <<"resolution">>]
        ELSE IF r2.kind # "ok" THEN [outcome |-> r2, checks |-> <<"resolution", "duration">>]
        ELSE [outcome |-> r3, checks |-> <<"resolution", "duration", "variants">>]

----------------------------------------------------------------------------
(* Bounds and inputs *)

\* the largest number of fetches an unlimited poll (max_polls = None) is followed for
MaxFetches == 4

\* the largest finite max_polls given to poll_job_until_complete
MaxPollsArg == 3

\* the largest number of generation records a fetched job carries
MaxGenerations == 2

\* the sessions one client creates
MaxSessions == 2

\* the tasks that use one client concurrently
MaxTasks == 3

Tasks == 1..MaxTasks

\* a task before it has called the client; session is the local variable of
\* the method it runs
NoTasks == [t \in Tasks |-> [pc |-> "idle", op |-> "none", session |-> None]]

\* the command-line workflow before main() runs
NoCli ==
    [pc |-> "off", args |-> <<>>, job |-> None, generations |-> <<>>, i |-> 0,
     downloaded_files |-> <<>>, reported |-> None, saved |-> {}, gif_failed |-> {},
     log |-> <<>>, escaped |-> None, call |-> None, polls |-> 0, asleep |-> FALSE,
     path |-> ""]

Dimensions == {480, 640, 720, 854, 1080, 1280, 1920}

Durations == {MIN_DURATION - 1, MIN_DURATION, 5, MAX_DURATION, MAX_DURATION + 1}

Counts == 0..5

Opt(S) == {None} \cup {Some(v) : v \in S}

\* CreateVideoGenerationRequest(prompt, width, height, n_seconds, n_variants)
RequestObjects ==
    [prompt : {"a cat"}, width : Dimensions, height : Dimensions,
     n_seconds : Durations, n_variants : Counts]

\* request dicts: any of the keys the code reads may be absent
RequestDicts ==
    [prompt : Opt({"a cat"}), width : Opt(Dimensions), height : Opt(Dimensions),
     n_seconds : Opt(Durations), duration : Opt({7}),
     n_variants : Opt(Counts), variants : Opt({3})]

Requests ==
    {[form |-> "object", data |-> o] : o \in RequestObjects}
        \cup {[form |-> "dict", data |-> d] : d \in RequestDicts}

NoRequest == [form |-> "none"]

NoArgs == <<>>

\* models.py is not part of the sources: the five statuses of the job
\* lifecycle and the fields of a job are taken from the specification
JobStatus == {"QUEUED", "RUNNING", "SUCCEEDED", "FAILED", "CANCELLED"}

GenerationLists == {[i \in 1..n |-> [id |-> i]] : n \in 0..MaxGenerations}

Jobs ==
    [id : {"job1"}, status : JobStatus,
     failure_reason : Opt({"quota exceeded"}),
     generations : GenerationLists]

deployment_name == "sora"

----------------------------------------------------------------------------
(* How a call ends *)

NoResult ==
    [kind |-> "none", message |-> <<>>, status_code |-> None,
     error_details |-> None, job |-> None, generations |-> <<>>, value |-> None]

SoraClientError(message, status_code, error_details) ==
    [kind |-> "SoraClientError", message |-> message, status_code |-> status_code,
     error_details |-> error_details, job |-> None, generations |-> <<>>,
     value |-> None]

\* an exception that is not SoraClientError leaving the call
Raised(kind, message) ==
    [kind |-> kind, message |-> message, status_code |-> None,
     error_details |-> None, job |-> None, generations |-> <<>>, value |-> None]

Returned(j, generations) ==
    [kind |-> "return", message |-> <<>>, status_code |-> None,
     error_details |-> None, job |-> Some(j), generations |-> generations,
     value |-> None]

\* a call that returns a plain value: True, bytes, a path
ReturnedValue(v) ==
    [kind |-> "return", message |-> <<>>, status_code |-> None,
     error_details |-> None, job |-> None, generations |-> <<>>, value |-> Some(v)]

----------------------------------------------------------------------------
(* client.py: the session and create_video_generation_job *)

\* the check of line 116 taken by every call
no_usable_session_always(s, ss) == TRUE

\* line 116: self._session is None or self._session.closed
no_usable_session(s, ss) == s = None \/ ss[s[1]] = "closed"

\* _get_session without the check of line 116: a session for every call
_get_session_always_creates(s, ss) ==
    [session |-> Some(Len(ss) + 1), sessions |-> Append(ss, "open")]

\* SoraClient._get_session (no suspension inside): self._session and the
\* sessions created so far, after the call; a new session is created open
_get_session(s, ss) ==
    IF no_usable_session(s, ss)
    THEN [session |-> Some(Len(ss) + 1), sessions |-> Append(ss, "open")]
    ELSE [session |-> s, sessions |-> ss]

\* the running call goes through _get_session
AcquireSession ==
    /\ Len(_get_session(session, sessions).sessions) <= MaxSessions
    /\ session' = _get_session(session, sessions).session
    /\ sessions' = _get_session(session, sessions).sessions

\* CreateVideoGenerationRequest.to_dict (models.py, not part of the sources):
\* the dict of the request's five fields under their wire names
to_dict(o) ==
    [prompt |-> Some(o.prompt), width |-> Some(o.width), height |-> Some(o.height),
     n_seconds |-> Some(o.n_seconds), duration |-> None,
     n_variants |-> Some(o.n_variants), variants |-> None]

\* lines 159-162: request.to_dict() or request.copy()
request_data_of(req) == IF req.form = "object" THEN to_dict(req.data) ELSE req.data

\* the payload with height and width exchanged
transformed_request_swapped(request_data) ==
    [model |-> deployment_name,
     prompt |-> Get(request_data, "prompt"),
     height |-> PyStr(GetDefault(request_data, "width", Some(1080))),
     width |-> PyStr(GetDefault(request_data, "height", Some(1080))),
     n_seconds |-> PyStr(GetDefault(request_data, "n_seconds",
                                    GetDefault(request_data, "duration", Some(5)))),
     n_variants |-> PyStr(GetDefault(request_data, "n_variants",
                                     GetDefault(request_data, "variants", Some(1))))]

\* lines 164-171
transformed_request(request_data) ==
    [model |-> deployment_name,
     prompt |-> Get(request_data, "prompt"),
     height |-> PyStr(GetDefault(request_data, "height", Some(1080))),
     width |-> PyStr(GetDefault(request_data, "width", Some(1080))),
     n_seconds |-> PyStr(GetDefault(request_data, "n_seconds",
                                    GetDefault(request_data, "duration", Some(5)))),
     n_variants |-> PyStr(GetDefault(request_data, "n_variants",
                                     GetDefault(request_data, "variants", Some(1))))]

HttpRequest(method, path, body) == [method |-> method, path |-> path, body |-> body]

\* the call with the session acquired before the request is validated
create_video_generation_job_session_first(req) ==
    /\ LET request_data == request_data_of(req)
           payload == transformed_request(request_data)
           v == validate_request(request_data)
       IN  /\ checked' = v.checks
           /\ IF v.outcome.kind = "ValidationError"
              THEN /\ result' = SoraClientError(
                                    <<"Invalid request parameters: ">> \o v.outcome.message,
                                    None,
                                    Some([validation_error |-> v.outcome.message]))
                   /\ pc' = "done"
                   /\ wire' = <<>>
                   /\ got_session' = TRUE
                   /\ AcquireSession
              ELSE IF v.outcome.kind = "TypeError"
              THEN /\ result' = Raised("TypeError", v.outcome.message)
                   /\ pc' = "done"
                   /\ wire' = <<>>
                   /\ got_session' = TRUE
                   /\ AcquireSession
              ELSE /\ result' = NoResult
                   /\ pc' = "create_posting"
                   /\ AcquireSession
                   /\ got_session' = TRUE
                   /\ wire' = <<HttpRequest("POST", "jobs", Some(payload))>>
    /\ op' = "create"
    /\ request' = req
    /\ vargs' = NoArgs
    /\ max_polls' = None
    /\ polls' = 0
    /\ job' = None
    /\ fetched' = <<>>
    /\ last_response' = None
    /\ UNCHANGED <<files, elsewhere>>

\* lines 159-193, up to the suspension in session.post: the request is
\* transformed and validated; a ValidationError is re-raised as SoraClientError,
\* any other exception of validate_request leaves the call as it is; a valid
\* request acquires the session and is POSTed to "jobs"
create_video_generation_job(req) ==
    /\ LET request_data == request_data_of(req)
           payload == transformed_request(request_data)
           v == validate_request(request_data)
       IN  /\ checked' = v.checks
           /\ IF v.outcome.kind = "ValidationError"
              THEN /\ result' = SoraClientError(
                                    <<"Invalid request parameters: ">> \o v.outcome.message,
                                    None,
                                    Some([validation_error |-> v.outcome.message]))
                   /\ pc' = "done"
                   /\ wire' = <<>>
                   /\ got_session' = FALSE
                   /\ UNCHANGED <<session, sessions>>
              ELSE IF v.outcome.kind = "TypeError"
              THEN /\ result' = Raised("TypeError", v.outcome.message)
                   /\ pc' = "done"
                   /\ wire' = <<>>
                   /\ got_session' = FALSE
                   /\ UNCHANGED <<session, sessions>>
              ELSE /\ result' = NoResult
                   /\ pc' = "create_posting"
                   /\ AcquireSession
                   /\ got_session' = TRUE
                   /\ wire' = <<HttpRequest("POST", "jobs", Some(payload))>>
    /\ op' = "create"
    /\ request' = req
    /\ vargs' = NoArgs
    /\ max_polls' = None
    /\ polls' = 0
    /\ job' = None
    /\ fetched' = <<>>
    /\ last_response' = None
    /\ UNCHANGED <<files, elsewhere>>

----------------------------------------------------------------------------
(* HTTP responses *)

\* the "error" member of a JSON object: absent, a string, or an object with an
\* optional "message"
ErrorMembers ==
    {[t |-> "absent"], [t |-> "str", text |-> "boom"]}
        \cup {[t |-> "dict", message |-> m] : m \in Opt({"nested message"})}

\* a response body as json.loads sees it: empty text, text that is not JSON,
\* a JSON value that is no object, or a JSON object
ErrorBodies ==
    {[kind |-> "empty"], [kind |-> "text", text |-> "Bad Gateway"], [kind |-> "json_list"]}
        \cup {[kind |-> "json_dict", error |-> e, message |-> m, job |-> None] :
                 e \in ErrorMembers, m \in Opt({"top message"})}

\* the body of a successful job request: the JSON object of a job
JobBody(j) ==
    [kind |-> "json_dict", error |-> [t |-> "absent"], message |-> None, job |-> Some(j)]

Reason(status) ==
    CASE status = 200 -> "OK" [] status = 201 -> "Created"
      [] status = 202 -> "Accepted" [] status = 204 -> "No Content"
      [] status = 400 -> "Bad Request" [] status = 404 -> "Not Found"
      [] status = 500 -> "Internal Server Error"
      [] OTHER -> ""

Response(status, body) == [status |-> status, reason |-> Reason(status), body |-> body]

\* aiohttp ClientResponse.ok
ok(response) == response.status < 400

NewJobs == {j \in Jobs : j.status = "QUEUED" /\ j.failure_reason = None /\ j.generations = <<>>}

\* what the POST of a job can bring back
CreateResponses ==
    {Response(201, JobBody(j)) : j \in NewJobs}
        \cup {Response(st, b) : st \in {400, 500}, b \in ErrorBodies}

\* lines 200-204: json.loads(response_text) if response_text else {}, and the
\* wrapper {"raw_response": response_text} around text that is not JSON
response_data_of(body) ==
    CASE body.kind = "empty" ->
            [t |-> "dict", error |-> [t |-> "absent"], message |-> None,
             raw_response |-> None, job |-> None]
      [] body.kind = "text" ->
            [t |-> "dict", error |-> [t |-> "absent"], message |-> None,
             raw_response |-> Some(body.text), job |-> None]
      [] body.kind = "json_list" ->
            [t |-> "list", error |-> [t |-> "absent"], message |-> None,
             raw_response |-> None, job |-> None]
      [] body.kind = "json_dict" ->
            [t |-> "dict", error |-> body.error, message |-> body.message,
             raw_response |-> None, job |-> body.job]

\* f"HTTP {response.status}: {response.reason}"
HttpMessage(response) == <<"HTTP ", IntStr(response.status), ": ", response.reason>>

\* VideoGenerationJob.from_dict (models.py, not part of the sources)
from_dict(data) == data.job[1]

\* lines 193-231, from the arrival of the response: the body is parsed, a
\* response that is not ok raises SoraClientError with the message found in
\* the body; response_data.get("error", {}).get(...) on an "error" member that
\* is a string raises AttributeError, which line 228 wraps
create_response_result(response) ==
    LET response_data == response_data_of(response.body)
    IN  IF ~ok(response)
        THEN IF response_data.t = "dict"
             THEN IF response_data.error.t = "str"
                  THEN SoraClientError(<<"Error creating video generation job: ",
                                         "'str' object has no attribute 'get'">>,
                                       None, None)
                  ELSE LET fallback == IF response_data.message # None
                                       THEN <<response_data.message[1]>>
                                       ELSE HttpMessage(response)
                           error_message ==
                               IF response_data.error.t = "dict"
                                  /\ response_data.error.message # None
                               THEN <<response_data.error.message[1]>>
                               ELSE fallback
                       IN  SoraClientError(error_message, Some(response.status),
                                           Some(response_data))
             ELSE SoraClientError(<<"Unknown error">>, Some(response.status),
                                  Some(response_data))
        ELSE Returned(from_dict(response_data), <<>>)

\* the response to the POST arrives
CreateResponse(response) ==
    /\ pc = "create_posting"
    /\ result' = create_response_result(response)
    /\ last_response' = Some(response)
    /\ pc' = "done"
    /\ UNCHANGED <<op, request, vargs, checked, session, sessions, got_session, wire,
                   max_polls, polls, job, fetched, files, elsewhere>>

\* session.post raises (a network fault, a timeout): line 228 wraps it
CreateFault ==
    /\ pc = "create_posting"
    /\ result' = SoraClientError(<<"Error creating video generation job: ",
                                   "Cannot connect to host">>, None, None)
    /\ pc' = "done"
    /\ UNCHANGED <<op, request, vargs, checked, session, sessions, got_session, wire,
                   max_polls, polls, job, fetched, last_response, files, elsewhere>>

----------------------------------------------------------------------------
(* client.py: poll_job_until_complete *)

\* what get_video_generation_job raises when the request fails: the error of
\* a response that is not ok, or the wrapped network fault
FetchErrors ==
    {SoraClientError(HttpMessage(Response(500, [kind |-> "empty"])), Some(500), None),
     SoraClientError(<<"Error getting video generation job: ", "Cannot connect to host">>,
                     None, None)}

\* the loop condition with the bound off by one
while_condition_inclusive(mp, p) == mp = None \/ p <= mp[1]

\* line 575: max_polls is None or polls < max_polls
while_condition(mp, p) == mp = None \/ p < mp[1]

\* the terminal statuses without CANCELLED
is_terminal_without_cancelled(status) == status \in {"SUCCEEDED", "FAILED"}

\* SUCCEEDED as the only status that ends the loop
is_terminal_only_succeeded(status) == status = "SUCCEEDED"

\* line 578
is_terminal(status) == status \in {"SUCCEEDED", "FAILED", "CANCELLED"}

\* f"{job.failure_reason}"
ReasonStr(failure_reason) == IF failure_reason = None THEN "None" ELSE failure_reason[1]

\* the end of the poll with a failure message that drops the reason
terminal_result_without_reason(j) ==
    IF j.status = "FAILED"
    THEN SoraClientError(<<"Job failed">>, None, None)
    ELSE Returned(j, j.generations)

\* lines 582-588: how the poll ends on a job whose status is terminal
terminal_result(j) ==
    IF j.status = "FAILED"
    THEN SoraClientError(<<"Job failed with reason: ", ReasonStr(j.failure_reason)>>,
                         None, None)
    ELSE Returned(j, j.generations)

\* line 595
timeout_result(mp) ==
    Raised("TimeoutError", <<"Polling exceeded maximum attempts (", PyStr(mp), ")">>)

\* get_video_generation_job up to its suspension in session.get (lines 333-338)
IssueFetch ==
    /\ AcquireSession
    /\ got_session' = TRUE
    /\ wire' = Append(wire, HttpRequest("GET", "jobs/job1", None))

\* lines 572-576: the call starts; the loop is entered and the first fetch
\* issued, or max_polls allows no fetch at all
poll_job_until_complete(mp) ==
    /\ op' = "poll"
    /\ max_polls' = mp
    /\ polls' = 0
    /\ job' = None
    /\ fetched' = <<>>
    /\ last_response' = None
    /\ UNCHANGED <<files, elsewhere>>
    /\ request' = NoRequest
    /\ vargs' = NoArgs
    /\ checked' = <<>>
    /\ IF while_condition(mp, 0)
       THEN /\ AcquireSession
            /\ got_session' = TRUE
            /\ wire' = <<HttpRequest("GET", "jobs/job1", None)>>
            /\ pc' = "poll_fetching"
            /\ result' = NoResult
       ELSE /\ result' = timeout_result(mp)
            /\ pc' = "done"
            /\ wire' = <<>>
            /\ got_session' = FALSE
            /\ UNCHANGED <<session, sessions>>

\* lines 576-592: the fetch returns job j; a terminal status ends the poll,
\* any other status starts the sleep
PollFetched(j) ==
    /\ pc = "poll_fetching"
    /\ job' = Some(j)
    /\ fetched' = Append(fetched, j.status)
    /\ IF is_terminal(j.status)
       THEN /\ result' = terminal_result(j)
            /\ pc' = "done"
       ELSE /\ pc' = "poll_sleeping"
            /\ UNCHANGED result
    /\ UNCHANGED <<op, request, vargs, checked, session, sessions, got_session, wire,
                   max_polls, polls, last_response, files, elsewhere>>

\* the error of the fetch replaced by an error of the poll's own
propagated_wrapped(e) ==
    SoraClientError(<<"Error polling job: ">> \o e.message, None, None)

\* line 576: nothing around the await catches what the fetch raises
propagated(e) == e

\* line 576: the fetch raises SoraClientError, which leaves the poll
PollFetchFailed(e) ==
    /\ pc = "poll_fetching"
    /\ result' = propagated(e)
    /\ pc' = "done"
    /\ UNCHANGED <<op, request, vargs, checked, session, sessions, got_session, wire,
                   max_polls, polls, job, fetched, last_response, files, elsewhere>>

\* lines 592-595 and 575-576: the sleep ends, polls is incremented and the
\* loop condition decides between the next fetch and TimeoutError
PollWake ==
    /\ pc = "poll_sleeping"
    /\ polls' = polls + 1
    /\ IF while_condition(max_polls, polls + 1)
       THEN /\ max_polls = None => Len(fetched) < MaxFetches
            /\ IssueFetch
            /\ pc' = "poll_fetching"
            /\ UNCHANGED result
       ELSE /\ result' = timeout_result(max_polls)
            /\ pc' = "done"
            /\ UNCHANGED <<session, sessions, got_session, wire>>
    /\ UNCHANGED <<op, request, vargs, checked, max_polls, job, fetched, last_response,
                   files, elsewhere>>

----------------------------------------------------------------------------
(* client.py: _handle_response and the operations that go through it *)

\* the Content-Type header as fragments: JSON with a charset, HTML, or absent
ContentTypes == {<<"application/json", "; charset=utf-8">>, <<"text/html">>, <<>>}

HttpResponse(status, content_type, body) ==
    [status |-> status, reason |-> Reason(status), content_type |-> content_type,
     body |-> body]

\* ", ".join(texts)
RECURSIVE Joined(_)
Joined(texts) ==
    IF texts = <<>> THEN ""
    ELSE IF Len(texts) = 1 THEN texts[1]
    ELSE texts[1] \o ", " \o Joined(Tail(texts))

\* the JSON text of the "error" member, when the object has one
ErrorMemberText(e) ==
    CASE e.t = "absent" -> <<>>
      [] e.t = "str" -> <<"\"error\": \"" \o e.text \o "\"">>
      [] e.t = "dict" ->
            IF e.message = None THEN <<"\"error\": {}">>
            ELSE <<"\"error\": {\"message\": \"" \o e.message[1] \o "\"}">>

\* JobStatus.value (models.py, not part of the sources): the status of a job
\* as the service writes it
StatusValue(status) ==
    CASE status = "QUEUED" -> "queued" [] status = "RUNNING" -> "running"
      [] status = "SUCCEEDED" -> "succeeded" [] status = "FAILED" -> "failed"
      [] status = "CANCELLED" -> "cancelled"

\* the JSON texts of generation records
GenerationTexts(generations) ==
    [i \in 1..Len(generations) |-> "{\"id\": \"" \o NatStr(generations[i].id) \o "\"}"]

\* the JSON texts of the members of a job or of a generation
ObjectMemberTexts(o) ==
    IF o = None THEN <<>>
    ELSE IF "status" \in DOMAIN o[1]
    THEN <<"\"id\": \"" \o o[1].id \o "\"",
           "\"status\": \"" \o StatusValue(o[1].status) \o "\"">>
             \o (IF o[1].failure_reason = None THEN <<>>
                 ELSE <<"\"failure_reason\": \"" \o o[1].failure_reason[1] \o "\"">>)
             \o <<"\"generations\": [" \o Joined(GenerationTexts(o[1].generations)) \o "]">>
    ELSE <<"\"id\": \"" \o NatStr(o[1].id) \o "\"">>

\* await response.text(): the text of the body as it came over the wire
BodyText(body) ==
    CASE body.kind = "empty" -> ""
      [] body.kind = "text" -> body.text
      [] body.kind = "bytes" -> body.data
      [] body.kind = "json_list" -> "[]"
      [] body.kind = "json_dict" ->
            "{" \o Joined(ErrorMemberText(body.error)
                              \o (IF body.message = None THEN <<>>
                                  ELSE <<"\"message\": \"" \o body.message[1] \o "\"">>)
                              \o ObjectMemberTexts(body.job))
                \o "}"

\* json.loads(response_text) raises JSONDecodeError
NotJson(body) == body.kind \in {"text", "bytes"}

\* line 272 and 275: "application/json" in content_type
IsJsonContentType(content_type) == Contains(content_type, <<"application/json">>)

\* lines 297-302: the message of the error for a JSON object; None when the
\* "error" member is an object without "message"
error_message_of(data, response) ==
    IF data.error.t = "dict"
    THEN IF data.error.message = None THEN None ELSE <<data.error.message[1]>>
    ELSE IF data.message # None THEN <<data.message[1]>>
    ELSE IF data.error.t = "str" THEN <<data.error.text>>
    ELSE HttpMessage(response)

Handled(data) == [raised |-> FALSE, error |-> NoResult, data |-> Some(data)]

HandlerRaises(e) == [raised |-> TRUE, error |-> e, data |-> None]

\* what _handle_response returns for a content type that is not JSON
EmptyDict == response_data_of([kind |-> "empty"])

\* lines 268-318: the dict the handler returns, or the SoraClientError it raises
_handle_response(response) ==
    IF IsJsonContentType(response.content_type)
    THEN IF NotJson(response.body)
         THEN HandlerRaises(SoraClientError(
                  <<"Invalid JSON response: ", BodyText(response.body)>>,
                  Some(response.status), None))
         ELSE LET data == response_data_of(response.body)
              IN  IF ~ok(response)
                  THEN IF data.t = "dict"
                       THEN HandlerRaises(SoraClientError(
                                error_message_of(data, response),
                                Some(response.status), Some(data)))
                       ELSE HandlerRaises(SoraClientError(
                                HttpMessage(response), Some(response.status), None))
                  ELSE Handled(data)
    ELSE IF ~ok(response)
         THEN HandlerRaises(SoraClientError(
                  <<"HTTP ", IntStr(response.status), ": ", BodyText(response.body)>>,
                  Some(response.status), None))
         ELSE Handled(EmptyDict)

\* VideoGenerationJobList.from_dict (models.py, not part of the sources): the
\* list of the jobs in the body
list_from_dict(data) == <<data.job[1]>>

\* lines 336-340: the end of get_video_generation_job on a response
get_video_generation_job(response) ==
    LET h == _handle_response(response)
    IN  IF h.raised THEN h.error ELSE Returned(from_dict(h.data[1]), <<>>)

\* lines 366-370
list_video_generation_jobs(response) ==
    LET h == _handle_response(response)
    IN  IF h.raised THEN h.error ELSE ReturnedValue(list_from_dict(h.data[1]))

\* VideoGeneration.from_dict (models.py, not part of the sources): the body
\* carries the members of the generation where that of a job carries the job's
generation_from_dict(data) == data.job[1]

\* lines 425-427: the end of get_video_generation on a response
get_video_generation(response) ==
    LET h == _handle_response(response)
    IN  IF h.raised THEN h.error ELSE ReturnedValue(generation_from_dict(h.data[1]))

\* the end of the delete without the shortcut of line 396
delete_video_generation_job_always_handled(response) ==
    LET h == _handle_response(response)
    IN  IF h.raised THEN h.error ELSE ReturnedValue(TRUE)

\* lines 395-399
delete_video_generation_job(response) ==
    IF response.status = 204 THEN ReturnedValue(TRUE)
    ELSE LET h == _handle_response(response)
         IN  IF h.raised THEN h.error ELSE ReturnedValue(TRUE)

\* lines 458-461 and 516-519: the bytes of the body, unless the response is
\* not ok and the handler raises
get_content(response) ==
    LET h == _handle_response(response)
    IN  IF ~ok(response) /\ h.raised THEN h.error
        ELSE ReturnedValue(BodyText(response.body))

\* the name of the thing an operation reads, as its messages put it
Subject(name) ==
    CASE name = "get_video_generation_job" -> "getting video generation job"
      [] name = "list_video_generation_jobs" -> "listing video generation jobs"
      [] name = "delete_video_generation_job" -> "deleting video generation job"
      [] name = "get_video_generation" -> "getting video generation"
      [] name \in {"get_video_content", "save_video_content"} -> "getting video content"
      [] name \in {"get_gif_content", "save_gif_content"} -> "getting GIF content"

\* the except clauses that follow each request: an exception that is not
\* SoraClientError is wrapped, the status code is not set
fault_result(name) ==
    SoraClientError(<<"Error " \o Subject(name) \o ": ", "Cannot connect to host">>,
                    None, None)

\* lines 483-491 and 541-549 with the exception of the write left unwrapped
write_failure_unwrapped(name, output_path) ==
    Raised("FileNotFoundError",
           <<"[Errno 2] No such file or directory: '" \o output_path \o "'">>)

\* lines 488-491 and 546-549: open or write raises
write_failure(name, output_path) ==
    SoraClientError(
        <<IF name = "save_video_content" THEN "Error saving video content: "
                                         ELSE "Error saving GIF content: ",
          "[Errno 2] No such file or directory: '" \o output_path \o "'">>,
        None, None)

SaveOperations == {"save_video_content", "save_gif_content"}

NetworkOperations ==
    {"get_video_generation_job", "list_video_generation_jobs",
     "delete_video_generation_job", "get_video_generation",
     "get_video_content", "get_gif_content"}
        \cup SaveOperations

\* the request an operation sends for job "job1" / generation "gen1"
RequestOf(name) ==
    CASE name = "get_video_generation_job" -> HttpRequest("GET", "jobs/job1", None)
      [] name = "list_video_generation_jobs" -> HttpRequest("GET", "jobs?limit=50", None)
      [] name = "delete_video_generation_job" -> HttpRequest("DELETE", "jobs/job1", None)
      [] name = "get_video_generation" -> HttpRequest("GET", "gen1", None)
      [] name \in {"get_video_content", "save_video_content"} ->
            HttpRequest("GET", "gen1/content/video", None)
      [] name \in {"get_gif_content", "save_gif_content"} ->
            HttpRequest("GET", "gen1/content/gif", None)

OutputPaths == {"output/gen1.mp4", "nowhere/gen1.mp4"}

\* responses that are not ok
ErrorResponses ==
    {HttpResponse(st, ct, b) : st \in {404, 500}, ct \in ContentTypes, b \in ErrorBodies}

\* what a request for a job or for the jobs can bring back: a job as JSON, a
\* 200 whose JSON does not parse, an error
JobResponses ==
    {HttpResponse(200, <<"application/json", "; charset=utf-8">>, JobBody(j)) :
         j \in {k \in Jobs : k.generations = <<>> /\ k.failure_reason = None}}
        \cup {HttpResponse(200, <<"application/json", "; charset=utf-8">>,
                           [kind |-> "text", text |-> "<html>"])}
        \cup ErrorResponses

\* the body of a successful request for a generation: its JSON object
GenerationBody(generation) ==
    [kind |-> "json_dict", error |-> [t |-> "absent"], message |-> None,
     job |-> Some(generation)]

\* what a request for a generation can bring back: the generation as JSON, a
\* 200 whose JSON does not parse, an error
GenerationResponses ==
    {HttpResponse(200, <<"application/json", "; charset=utf-8">>,
                  GenerationBody([id |-> 1]))}
        \cup {HttpResponse(200, <<"application/json", "; charset=utf-8">>,
                           [kind |-> "text", text |-> "<html>"])}
        \cup ErrorResponses

\* what a DELETE can bring back: 200, 202 or 204 with any content type and
\* body, or an error
DeleteResponses ==
    {HttpResponse(st, ct, b) : st \in {200, 202, 204}, ct \in ContentTypes, b \in ErrorBodies}
        \cup ErrorResponses

\* what a request for content can bring back: the bytes, or an error
ContentResponses ==
    {HttpResponse(200, <<"video/mp4">>, [kind |-> "bytes", data |-> "bytes of gen1"])}
        \cup ErrorResponses

ResponsesTo(name) ==
    CASE name \in {"get_video_generation_job", "list_video_generation_jobs"} -> JobResponses
      [] name = "delete_video_generation_job" -> DeleteResponses
      [] name = "get_video_generation" -> GenerationResponses
      [] OTHER -> ContentResponses

\* how the operation ends on a response, before anything is written
response_result(name, response) ==
    CASE name = "get_video_generation_job" -> get_video_generation_job(response)
      [] name = "list_video_generation_jobs" -> list_video_generation_jobs(response)
      [] name = "delete_video_generation_job" -> delete_video_generation_job(response)
      [] name = "get_video_generation" -> get_video_generation(response)
      [] OTHER -> get_content(response)

\* an operation up to its suspension in session.get / session.delete: the
\* session is acquired and the request sent
NetworkCall(name, output_path) ==
    /\ op' = name
    /\ AcquireSession
    /\ got_session' = TRUE
    /\ wire' = <<RequestOf(name)>>
    /\ pc' = "requesting"
    /\ vargs' = IF name \in SaveOperations THEN <<output_path>> ELSE NoArgs
    /\ request' = NoRequest
    /\ checked' = <<>>
    /\ max_polls' = None
    /\ polls' = 0
    /\ job' = None
    /\ fetched' = <<>>
    /\ last_response' = None
    /\ result' = NoResult
    /\ UNCHANGED <<files, elsewhere>>

\* how a request method ends on a response; save_video_content and
\* save_gif_content go on to write the bytes they got (lines 483-491, 541-549),
\* which the file system lets succeed or not
call_result(name, output_path, resp, writable) ==
    LET fetch == response_result(name, resp)
    IN  IF name \in SaveOperations /\ fetch.kind = "return"
        THEN IF writable THEN ReturnedValue(output_path)
             ELSE write_failure(name, output_path)
        ELSE fetch

\* lines 483-486 and 541-544: the files after a save method has ended with r
written(fs, name, output_path, resp, r) ==
    IF name \in SaveOperations /\ r.kind = "return"
    THEN {f \in fs : f.path # output_path}
             \cup {[path |-> output_path, content |-> BodyText(resp.body)]}
    ELSE fs

\* the response arrives
NetworkResponse(resp, writable) ==
    /\ pc = "requesting"
    /\ last_response' = Some(resp)
    /\ pc' = "done"
    /\ LET output_path == IF op \in SaveOperations THEN vargs[1] ELSE ""
           r == call_result(op, output_path, resp, writable)
       IN  /\ result' = r
           /\ files' = written(files, op, output_path, resp, r)
    /\ UNCHANGED <<op, request, vargs, checked, session, sessions, got_session, wire,
                   max_polls, polls, job, fetched, elsewhere>>

\* the request raises (a network fault, a timeout)
NetworkFault ==
    /\ pc = "requesting"
    /\ result' = fault_result(op)
    /\ pc' = "done"
    /\ UNCHANGED <<op, request, vargs, checked, session, sessions, got_session, wire,
                   max_polls, polls, job, fetched, last_response, files, elsewhere>>

\* the responses for which get_video_generation_job raises
FetchErrorResponses ==
    {r \in JobResponses : get_video_generation_job(r).kind = "SoraClientError"}

\* line 576 with lines 336-340: the fetch of the poll receives a response for
\* which get_video_generation_job raises; the error leaves the poll
PollFetchRejected(resp) ==
    /\ pc = "poll_fetching"
    /\ last_response' = Some(resp)
    /\ result' = propagated(get_video_generation_job(resp))
    /\ pc' = "done"
    /\ UNCHANGED <<op, request, vargs, checked, session, sessions, got_session, wire,
                   max_polls, polls, job, fetched, files, elsewhere>>

----------------------------------------------------------------------------
(* client.py: close and the scope of async with *)

\* line 124: self._session and not self._session.closed
has_open_session(s, ss) == s # None /\ ss[s[1]] # "closed"

\* session.close() that leaves the session open
closed_nothing(s, ss) == ss

\* session.close() on the session the client holds
closed(s, ss) == [ss EXCEPT ![s[1]] = "closed"]

\* line 126: self._session = None
after_close(s) == None

\* close() (lines 597-599) and __aexit__ (lines 605-607), up to the suspension
\* in session.close(); exc is the exception that leaves the scope, None for
\* close() and for a normal exit
CloseCall(name, exc) ==
    /\ op' = name
    /\ vargs' = <<exc>>
    /\ IF has_open_session(session, sessions)
       THEN /\ sessions' = closed(session, sessions)
            /\ pc' = "closing"
            /\ result' = NoResult
       ELSE /\ pc' = "done"
            /\ result' = ReturnedValue("None")
            /\ UNCHANGED sessions
    /\ UNCHANGED session
    /\ got_session' = FALSE
    /\ wire' = <<>>
    /\ request' = NoRequest
    /\ checked' = <<>>
    /\ max_polls' = None
    /\ polls' = 0
    /\ job' = None
    /\ fetched' = <<>>
    /\ last_response' = None
    /\ UNCHANGED <<files, elsewhere>>

\* session.close() is over: line 126
CloseFinish ==
    /\ pc = "closing"
    /\ session' = after_close(session)
    /\ pc' = "done"
    /\ result' = ReturnedValue("None")
    /\ UNCHANGED <<op, request, vargs, checked, sessions, got_session, wire,
                   max_polls, polls, job, fetched, last_response, files, elsewhere>>

\* the points at which a call waits, where an exception thrown into it
\* (a cancellation) leaves the call and the scope
SuspensionPoints == {"create_posting", "poll_fetching", "poll_sleeping", "requesting"}

----------------------------------------------------------------------------
(* Concurrent use of one client: tasks of one event loop, which run one at   *)
(* a time and give way only where a method awaits something that suspends    *)

\* what the methods of the sequential client use
sequential == <<op, pc, request, vargs, checked, got_session, wire, max_polls, polls,
                job, fetched, last_response, files, result>>

\* the same without the files
caller == <<op, pc, request, vargs, checked, got_session, wire, max_polls, polls,
            job, fetched, last_response, result>>

\* the request methods the tasks call
TaskOperations ==
    {"get_video_generation_job", "delete_video_generation_job", "get_video_content"}

\* a request method from its call to the suspension in session.get /
\* session.delete: session = await self._get_session() does not suspend
TaskRequest(t, name) ==
    /\ tasks[t].pc = "idle"
    /\ AcquireSession
    /\ tasks' = [tasks EXCEPT ![t] = [pc |-> "requesting", op |-> name,
                                      session |-> _get_session(session, sessions).session]]
    /\ UNCHANGED <<sequential, cli, remote>>

\* the request of task t is over: a response or an exception
TaskResponse(t) ==
    /\ tasks[t].pc = "requesting"
    /\ tasks' = [tasks EXCEPT ![t].pc = "done"]
    /\ UNCHANGED <<session, sessions, sequential, cli, remote>>

\* close() (lines 597-599, 122-125) up to the suspension in session.close()
TaskClose(t) ==
    /\ tasks[t].pc = "idle"
    /\ IF has_open_session(session, sessions)
       THEN /\ sessions' = closed(session, sessions)
            /\ tasks' = [tasks EXCEPT ![t] = [pc |-> "closing", op |-> "close",
                                              session |-> session]]
       ELSE /\ tasks' = [tasks EXCEPT ![t] = [pc |-> "done", op |-> "close",
                                              session |-> None]]
            /\ UNCHANGED sessions
    /\ UNCHANGED <<session, sequential, cli, remote>>

\* session.close() of task t is over: line 126
TaskCloseFinish(t) ==
    /\ tasks[t].pc = "closing"
    /\ session' = after_close(session)
    /\ tasks' = [tasks EXCEPT ![t].pc = "done"]
    /\ UNCHANGED <<sessions, sequential, cli, remote>>

TaskRequests == \E t \in Tasks, name \in TaskOperations : TaskRequest(t, name)

TaskResponds == \E t \in Tasks : TaskResponse(t)

TaskCloses == \E t \in Tasks : TaskClose(t)

TaskCloseFinishes == \E t \in Tasks : TaskCloseFinish(t)

NextTasks ==
    \/ TaskRequests
    \/ TaskResponds
    \/ TaskCloses
    \/ TaskCloseFinishes

----------------------------------------------------------------------------
(* examples/cli.py: the workflow of main() *)

\* the command line: the three switches that select what main() does, and the
\* parameters of a new job
CliArgs ==
    [delete_job : BOOLEAN, list_only : BOOLEAN, job_id : BOOLEAN,
     resolution : {<<480, 480>>, <<1920, 1080>>, <<640, 640>>},
     n_seconds : {0, 5, 25}, n_variants : {1, 5}]

\* validation.py lines 164-175
get_max_duration_for_resolution(width, height) == MAX_DURATION

\* cli.py lines 66-86: the request create_video_job builds
cli_request(args) ==
    LET width == args.resolution[1]
        height == args.resolution[2]
        max_duration == get_max_duration_for_resolution(width, height)
        max_variants == get_max_variants_for_resolution(width, height)
    IN  [form |-> "object",
         data |-> [prompt |-> "a cat", width |-> width, height |-> height,
                   n_seconds |-> IF args.n_seconds > max_duration THEN max_duration
                                 ELSE args.n_seconds,
                   n_variants |-> IF args.n_variants > max_variants THEN max_variants
                                  ELSE args.n_variants]]

\* the ways a request method that writes nothing can end
CallResults(name) ==
    {response_result(name, r) : r \in ResponsesTo(name)} \cup {fault_result(name)}

\* a job created by the POST, or what leaves create_video_generation_job when
\* the request fails after it was sent
CreateEnds ==
    {create_response_result(r) : r \in CreateResponses}
        \cup {SoraClientError(<<"Error creating video generation job: ",
                                "Cannot connect to host">>, None, None)}

\* what leaves get_video_generation_job when the fetch of a poll fails
PollFetchErrors ==
    FetchErrors \cup {get_video_generation_job(r) : r \in FetchErrorResponses}

\* datetime.now().strftime('%Y%m%d_%H%M%S')
Timestamps == {"20240101_120000"}

\* lines 132-133 and 143-144, with the default --output-dir
VideoPath(generation, now) ==
    "./outputs/video_" \o NatStr(generation.id) \o "_" \o now \o ".mp4"

GifPath(generation, now) ==
    "./outputs/gif_" \o NatStr(generation.id) \o "_" \o now \o ".gif"

\* main() with the delete put before the downloads
main_after_delete_first(step) ==
    CASE step = "monitor" -> "cleanup"
      [] step = "cleanup" -> "download"
      [] step = "download" -> "exit"

\* lines 262-270: what main() does after each of its steps
main_after(step) ==
    CASE step = "monitor" -> "download"
      [] step = "download" -> "cleanup"
      [] step = "cleanup" -> "exit"

\* main() enters a method of the client, which runs up to its suspension in
\* the request: the session is acquired and the request sent
Calling(c, kind, of) ==
    [c EXCEPT !.call = Some(kind), !.log = Append(@, [kind |-> kind, of |-> of])]

\* an exception that is not SoraClientError leaves main()
Escaping(r) == IF r.kind \in {"return", "SoraClientError"} THEN None ELSE Some(r.kind)

\* lines 228-248: main() parses the command line, checks the resolution and
\* enters the scope of the client
CliMain(args) ==
    /\ cli.pc = "off"
    /\ cli' = [cli EXCEPT
                  !.args = args,
                  !.pc = IF validate_resolution(Some(args.resolution[1]),
                                                Some(args.resolution[2])).kind # "ok"
                         THEN "end"
                         ELSE IF args.delete_job THEN "cleanup_only"
                         ELSE IF args.list_only THEN "list"
                         ELSE IF args.job_id THEN "monitor"
                         ELSE "create",
                  !.job = IF args.job_id THEN Some("job1") ELSE None]
    /\ UNCHANGED <<session, sessions, sequential, tasks, remote>>

\* lines 237-239 and 184-187: --delete-job, up to the suspension of
\* delete_video_generation_job
CliCleanupOnlyCalls ==
    /\ cli.pc = "cleanup_only"
    /\ cli.call = None
    /\ AcquireSession
    /\ cli' = Calling(cli, "delete", "job1")
    /\ UNCHANGED <<sequential, tasks, remote>>

\* lines 187-194 and 239: the delete ends; cleanup_job logs, main() returns
CliCleanupOnlyEnds ==
    /\ cli.pc = "cleanup_only"
    /\ cli.call = Some("delete")
    /\ \E r \in CallResults("delete_video_generation_job") :
           cli' = [cli EXCEPT !.call = None, !.pc = "exit", !.escaped = Escaping(r)]
    /\ UNCHANGED <<session, sessions, sequential, tasks, remote>>

\* lines 241-243 and 159-162: --list-only, up to the suspension of
\* list_video_generation_jobs
CliListCalls ==
    /\ cli.pc = "list"
    /\ cli.call = None
    /\ AcquireSession
    /\ cli' = Calling(cli, "list", "")
    /\ UNCHANGED <<sequential, tasks, remote>>

\* lines 162-181 and 243: the list ends; list_jobs logs, main() returns
CliListEnds ==
    /\ cli.pc = "list"
    /\ cli.call = Some("list")
    /\ \E r \in CallResults("list_video_generation_jobs") :
           cli' = [cli EXCEPT !.call = None, !.pc = "exit", !.escaped = Escaping(r)]
    /\ UNCHANGED <<session, sessions, sequential, tasks, remote>>

\* lines 249-253 and 56-89: create_video_job up to the suspension of
\* create_video_generation_job; a request that validate_request rejects is
\* not sent, the SoraClientError is logged and main() returns
CliCreateCalls ==
    /\ cli.pc = "create"
    /\ cli.call = None
    /\ LET req == cli_request(cli.args)
           v == validate_request(request_data_of(req))
       IN  IF v.outcome.kind = "ok"
           THEN /\ AcquireSession
                /\ cli' = Calling(cli, "create", "")
           ELSE /\ cli' = [cli EXCEPT !.job = None, !.pc = "exit",
                                      !.escaped = IF v.outcome.kind = "ValidationError"
                                                  THEN None ELSE Some(v.outcome.kind)]
                /\ UNCHANGED <<session, sessions>>
    /\ UNCHANGED <<sequential, tasks, remote>>

\* lines 89-97 and 254-258: the POST ends; main() goes on with the job or
\* returns
CliCreateEnds ==
    /\ cli.pc = "create"
    /\ cli.call = Some("create")
    /\ \E r \in CreateEnds :
           cli' = [cli EXCEPT
                      !.call = None,
                      !.job = IF r.kind = "return" THEN Some(r.job[1].id) ELSE None,
                      !.pc = IF r.kind = "return" THEN "monitor" ELSE "exit",
                      !.escaped = Escaping(r)]
    /\ UNCHANGED <<session, sessions, sequential, tasks, remote>>

\* lines 246-247 or 258, 100-103 and client.py 572-576: monitor_job enters
\* poll_job_until_complete, which issues its first fetch; max_polls is None,
\* with which the condition of line 575 holds on every pass
CliMonitorCalls ==
    /\ cli.pc = "monitor"
    /\ cli.call = None
    /\ AcquireSession
    /\ cli' = [Calling(cli, "poll", cli.job[1]) EXCEPT !.polls = 0, !.asleep = FALSE]
    /\ UNCHANGED <<sequential, tasks, remote>>

\* how main() goes on when poll_job_until_complete has ended with r (lines
\* 105-118 and 260-264)
monitored(c, r) ==
    [c EXCEPT
        !.call = None,
        !.job = IF r.kind = "return" THEN Some(r.job[1].id) ELSE None,
        !.generations = IF r.kind = "return" /\ r.job[1].status = "SUCCEEDED"
                        THEN r.generations ELSE <<>>,
        !.pc = IF r.kind = "return" THEN main_after("monitor") ELSE "exit",
        !.escaped = Escaping(r)]

\* client.py 576-592: a fetch of the poll returns job j; a terminal status ends
\* the poll and monitor_job, any other status starts the sleep
CliPollFetched(j) ==
    /\ cli.pc = "monitor"
    /\ cli.call = Some("poll")
    /\ ~cli.asleep
    /\ cli' = IF is_terminal(j.status) THEN monitored(cli, terminal_result(j))
              ELSE [cli EXCEPT !.asleep = TRUE]
    /\ UNCHANGED <<session, sessions, sequential, tasks, remote>>

\* client.py 576: a fetch of the poll raises, which ends the poll; monitor_job
\* logs the SoraClientError and returns no job
CliPollFails ==
    /\ cli.pc = "monitor"
    /\ cli.call = Some("poll")
    /\ ~cli.asleep
    /\ \E e \in PollFetchErrors : cli' = monitored(cli, propagated(e))
    /\ UNCHANGED <<session, sessions, sequential, tasks, remote>>

\* client.py 592-593 and 575-576: the sleep ends and the next fetch is issued
CliPollWakes ==
    /\ cli.pc = "monitor"
    /\ cli.call = Some("poll")
    /\ cli.asleep
    /\ cli.polls + 1 < MaxFetches
    /\ AcquireSession
    /\ cli' = [cli EXCEPT !.polls = @ + 1, !.asleep = FALSE]
    /\ UNCHANGED <<sequential, tasks, remote>>

\* the next generation of the loop of download_videos, or its return
next_generation(c) ==
    IF c.i < Len(c.generations)
    THEN [c EXCEPT !.i = c.i + 1, !.pc = "save_video"]
    ELSE [c EXCEPT !.reported = Some(c.downloaded_files), !.pc = main_after("download")]

\* lines 121-129: download_videos starts; os.makedirs succeeds or raises
CliDownload ==
    /\ cli.pc = "download"
    /\ IF cli.generations = <<>>
       THEN cli' = [cli EXCEPT !.reported = Some(<<>>), !.pc = main_after("download")]
       ELSE \E made \in BOOLEAN :
                cli' = IF made
                       THEN [cli EXCEPT !.downloaded_files = <<>>, !.i = 1,
                                        !.pc = "save_video"]
                       ELSE [cli EXCEPT !.pc = "exit", !.escaped = Some("OSError")]
    /\ UNCHANGED <<session, sessions, sequential, tasks, remote>>

\* lines 131-136: the path of the video of generation i is built and
\* save_video_content runs up to the suspension of its request
CliSaveVideoCalls ==
    /\ cli.pc = "save_video"
    /\ cli.call = None
    /\ AcquireSession
    /\ \E now \in Timestamps :
           cli' = [Calling(cli, "video", cli.job[1]) EXCEPT
                      !.path = VideoPath(cli.generations[cli.i], now)]
    /\ UNCHANGED <<sequential, tasks, remote>>

\* lines 136-140 and 153-154: save_video_content has ended with r
video_saved(c, r) ==
    IF r.kind = "return"
    THEN [c EXCEPT !.call = None,
                   !.downloaded_files = Append(@, c.path),
                   !.saved = @ \cup {c.generations[c.i].id},
                   !.pc = "save_gif"]
    ELSE IF r.kind = "SoraClientError"
    THEN next_generation([c EXCEPT !.call = None])
    ELSE [c EXCEPT !.call = None, !.pc = "exit", !.escaped = Some(r.kind)]

\* client.py 481-491: the request of save_video_content ends and the bytes
\* are written, or the request raises
CliSaveVideoEnds ==
    /\ cli.pc = "save_video"
    /\ cli.call = Some("video")
    /\ \/ \E resp \in ResponsesTo("save_video_content"), writable \in BOOLEAN :
              LET r == call_result("save_video_content", cli.path, resp, writable)
              IN  /\ cli' = video_saved(cli, r)
                  /\ files' = written(files, "save_video_content", cli.path, resp, r)
       \/ /\ cli' = video_saved(cli, fault_result("save_video_content"))
          /\ UNCHANGED files
    /\ UNCHANGED <<session, sessions, caller, tasks, remote>>

\* lines 142-147: the path of the GIF of generation i is built and
\* save_gif_content runs up to the suspension of its request
CliSaveGifCalls ==
    /\ cli.pc = "save_gif"
    /\ cli.call = None
    /\ AcquireSession
    /\ \E now \in Timestamps :
           cli' = [Calling(cli, "gif", cli.job[1]) EXCEPT
                      !.path = GifPath(cli.generations[cli.i], now)]
    /\ UNCHANGED <<sequential, tasks, remote>>

\* lines 147-151: save_gif_content has ended with r
gif_saved(c, r) ==
    IF r.kind = "return"
    THEN next_generation([c EXCEPT !.call = None,
                                   !.downloaded_files = Append(@, c.path)])
    ELSE IF r.kind = "SoraClientError"
    THEN next_generation([c EXCEPT !.call = None,
                                   !.gif_failed = @ \cup {c.generations[c.i].id}])
    ELSE [c EXCEPT !.call = None, !.pc = "exit", !.escaped = Some(r.kind)]

\* client.py 539-549: the request of save_gif_content ends and the bytes are
\* written, or the request raises
CliSaveGifEnds ==
    /\ cli.pc = "save_gif"
    /\ cli.call = Some("gif")
    /\ \/ \E resp \in ResponsesTo("save_gif_content"), writable \in BOOLEAN :
              LET r == call_result("save_gif_content", cli.path, resp, writable)
              IN  /\ cli' = gif_saved(cli, r)
                  /\ files' = written(files, "save_gif_content", cli.path, resp, r)
       \/ /\ cli' = gif_saved(cli, fault_result("save_gif_content"))
          /\ UNCHANGED files
    /\ UNCHANGED <<session, sessions, caller, tasks, remote>>

\* lines 269-270 and 184-187: cleanup_job for the job that was monitored, up
\* to the suspension of delete_video_generation_job
CliCleanupCalls ==
    /\ cli.pc = "cleanup"
    /\ cli.call = None
    /\ AcquireSession
    /\ cli' = Calling(cli, "delete", cli.job[1])
    /\ UNCHANGED <<sequential, tasks, remote>>

\* lines 187-194 and 272-277: the delete ends; cleanup_job logs and main()
\* reports the files
CliCleanupEnds ==
    /\ cli.pc = "cleanup"
    /\ cli.call = Some("delete")
    /\ \E r \in CallResults("delete_video_generation_job") :
           cli' = [cli EXCEPT
                      !.call = None,
                      !.pc = IF r.kind \in {"return", "SoraClientError"}
                             THEN main_after("cleanup") ELSE "exit",
                      !.escaped = Escaping(r)]
    /\ UNCHANGED <<session, sessions, sequential, tasks, remote>>

\* line 235 and client.py lines 605-607, 122-125: the scope of the client is
\* left; an open session is closed, which suspends in session.close()
CliExit ==
    /\ cli.pc = "exit"
    /\ cli.call = None
    /\ IF has_open_session(session, sessions)
       THEN /\ sessions' = closed(session, sessions)
            /\ cli' = [cli EXCEPT !.call = Some("close")]
       ELSE /\ cli' = [cli EXCEPT !.pc = "end"]
            /\ UNCHANGED sessions
    /\ UNCHANGED <<session, sequential, tasks, remote>>

\* client.py line 126: session.close() is over, self._session = None, and
\* main() ends
CliExitEnds ==
    /\ cli.pc = "exit"
    /\ cli.call = Some("close")
    /\ session' = after_close(session)
    /\ cli' = [cli EXCEPT !.call = None, !.pc = "end"]
    /\ UNCHANGED <<sessions, sequential, tasks, remote>>

CliStart == cli.pc = "off" /\ \E args \in CliArgs : CliMain(args)

CliPollFetches == cli.pc = "monitor" /\ \E j \in Jobs : CliPollFetched(j)

NextCli ==
    \/ CliStart
    \/ CliCleanupOnlyCalls
    \/ CliCleanupOnlyEnds
    \/ CliListCalls
    \/ CliListEnds
    \/ CliCreateCalls
    \/ CliCreateEnds
    \/ CliMonitorCalls
    \/ CliPollFetches
    \/ CliPollFails
    \/ CliPollWakes
    \/ CliDownload
    \/ CliSaveVideoCalls
    \/ CliSaveVideoEnds
    \/ CliSaveGifCalls
    \/ CliSaveGifEnds
    \/ CliCleanupCalls
    \/ CliCleanupEnds
    \/ CliExit
    \/ CliExitEnds

----------------------------------------------------------------------------
(* A poll against a job that moves through its lifecycle on the service *)

\* the lifecycle of a job on the service (not part of the sources): QUEUED,
\* then RUNNING, then one of the terminal statuses, from which it does not move
RemoteSuccessors(status) ==
    CASE status = "QUEUED" -> {"RUNNING", "CANCELLED"}
      [] status = "RUNNING" -> {"SUCCEEDED", "FAILED", "CANCELLED"}
      [] OTHER -> {}

\* the job moves on
RemoteStep ==
    /\ \E status \in RemoteSuccessors(remote) : remote' = status
    /\ UNCHANGED <<session, sessions, sequential, tasks, cli>>

\* the fetch of the poll returns the job as it is on the service now
RemoteFetchReturns ==
    pc = "poll_fetching" /\ \E j \in Jobs : j.status = remote /\ PollFetched(j)

----------------------------------------------------------------------------
(* Direct calls of the validators *)

VariantDimensions == Dimensions \cup {719, 1079, 1081}

VariantCounts == -1..5

ValidatorResult(outcome) ==
    IF outcome.kind = "ok" THEN [NoResult EXCEPT !.kind = "return"]
    ELSE Raised(outcome.kind, outcome.message)

ValidateRequestCall(d) ==
    /\ op' = "validate_request"
    /\ request' = [form |-> "dict", data |-> d]
    /\ LET v == validate_request(d)
       IN  /\ checked' = v.checks
           /\ result' = ValidatorResult(v.outcome)
    /\ pc' = "done"
    /\ vargs' = NoArgs
    /\ wire' = <<>>
    /\ got_session' = FALSE
    /\ max_polls' = None
    /\ polls' = 0
    /\ job' = None
    /\ fetched' = <<>>
    /\ last_response' = None
    /\ UNCHANGED <<files, elsewhere>>
    /\ UNCHANGED <<session, sessions>>

ValidateVariantsCall(width, height, variants) ==
    /\ op' = "validate_variants"
    /\ vargs' = <<width, height, variants>>
    /\ result' = ValidatorResult(validate_variants(width, height, Some(variants)))
    /\ pc' = "done"
    /\ request' = NoRequest
    /\ checked' = <<>>
    /\ wire' = <<>>
    /\ got_session' = FALSE
    /\ max_polls' = None
    /\ polls' = 0
    /\ job' = None
    /\ fetched' = <<>>
    /\ last_response' = None
    /\ UNCHANGED <<files, elsewhere>>
    /\ UNCHANGED <<session, sessions>>

\* the caller takes the outcome of the finished call and drops the call's
\* locals; the client and its session stay
Return ==
    /\ pc = "done"
    /\ pc' = "idle"
    /\ op' = "none"
    /\ request' = NoRequest
    /\ vargs' = NoArgs
    /\ checked' = <<>>
    /\ got_session' = FALSE
    /\ wire' = <<>>
    /\ max_polls' = None
    /\ polls' = 0
    /\ job' = None
    /\ fetched' = <<>>
    /\ last_response' = None
    /\ UNCHANGED <<files, elsewhere>>
    /\ result' = NoResult
    /\ UNCHANGED <<session, sessions>>

----------------------------------------------------------------------------
(* The specification *)

Init ==
    /\ op = "none"
    /\ pc = "idle"
    /\ request = NoRequest
    /\ vargs = NoArgs
    /\ checked = <<>>
    /\ session = None
    /\ sessions = <<>>
    /\ got_session = FALSE
    /\ wire = <<>>
    /\ max_polls = None
    /\ polls = 0
    /\ job = None
    /\ fetched = <<>>
    /\ last_response = None
    /\ files = {}
    /\ result = NoResult
    /\ tasks = NoTasks
    /\ cli = NoCli
    /\ remote = "QUEUED"

\* the caller starts an operation on the idle client
CreateStart == pc = "idle" /\ \E req \in Requests : create_video_generation_job(req)

PollStart == pc = "idle" /\ \E mp \in Opt(0..MaxPollsArg) : poll_job_until_complete(mp)

ValidateRequestStart == pc = "idle" /\ \E d \in RequestDicts : ValidateRequestCall(d)

ValidateVariantsStart ==
    /\ pc = "idle"
    /\ \E w \in VariantDimensions, h \in VariantDimensions, c \in VariantCounts :
           ValidateVariantsCall(w, h, c)

CreateResponds ==
    pc = "create_posting" /\ \E response \in CreateResponses : CreateResponse(response)

PollFetchReturns == pc = "poll_fetching" /\ \E j \in Jobs : PollFetched(j)

PollFetchRaises == pc = "poll_fetching" /\ \E e \in FetchErrors : PollFetchFailed(e)

PollFetchRejects ==
    pc = "poll_fetching" /\ \E resp \in FetchErrorResponses : PollFetchRejected(resp)

NetworkStart ==
    /\ pc = "idle"
    /\ \E name \in NetworkOperations :
           \E output_path \in (IF name \in SaveOperations THEN OutputPaths ELSE {""}) :
               NetworkCall(name, output_path)

NetworkResponds ==
    /\ pc = "requesting"
    /\ \E resp \in ResponsesTo(op), writable \in BOOLEAN : NetworkResponse(resp, writable)

CloseStart == pc = "idle" /\ CloseCall("close", "None")

\* the scope of async with is left: normally or by an exception between two
\* calls, or by an exception thrown into the call that is waiting
ScopeExit ==
    \/ pc = "idle" /\ \E exc \in {"None", "Exception"} : CloseCall("__aexit__", exc)
    \/ pc \in SuspensionPoints /\ CloseCall("__aexit__", "CancelledError")

Next ==
    \/ CreateStart
    \/ CreateResponds
    \/ CreateFault
    \/ PollStart
    \/ NetworkStart
    \/ NetworkResponds
    \/ NetworkFault
    \/ CloseStart
    \/ ScopeExit
    \/ CloseFinish
    \/ PollFetchReturns
    \/ PollFetchRaises
    \/ PollFetchRejects
    \/ PollWake
    \/ ValidateRequestStart
    \/ ValidateVariantsStart
    \/ Return

Spec == Init /\ [][Next]_vars

NextLive ==
    \/ PollStart
    \/ RemoteFetchReturns
    \/ PollFetchRaises
    \/ PollWake
    \/ RemoteStep

\* the loop under fair scheduling: the sleep of line 592 ends, and a fetch
\* ends with a job or with an error (the session has a total timeout, line 118)
SpecLive ==
    /\ Init
    /\ [][NextLive]_vars
    /\ WF_vars(PollWake)
    /\ WF_vars(RemoteFetchReturns \/ PollFetchRaises)

\* one run of the command-line workflow
SpecCli == Init /\ [][NextCli]_vars

\* tasks that use one client concurrently, each for one call
SpecTasks == Init /\ [][NextTasks]_vars

----------------------------------------------------------------------------
(* Properties of poll_job_until_complete *)

TerminalStatuses == {"SUCCEEDED", "FAILED", "CANCELLED"}

\* the fetches the running call has issued
Fetches == Len(SelectSeq(wire, LAMBDA r : r.method = "GET"))

\* C1: a poll with a finite max_polls = N never issues more than N fetches,
\* and when it has ended with every one of its fetches having returned a
\* non-terminal status, it has issued exactly N fetches and raised
\* TimeoutError, which is not SoraClientError.
C1_TimeoutAfterMaxPolls ==
    (op = "poll" /\ max_polls # None) =>
        /\ Fetches <= max_polls[1]
        /\ (/\ pc = "done"
            /\ Len(fetched) = Fetches
            /\ \A i \in 1..Len(fetched) : fetched[i] \notin TerminalStatuses)
           => /\ result.kind = "TimeoutError"
              /\ result.kind # "SoraClientError"
              /\ Fetches = max_polls[1]
              /\ polls = max_polls[1]

\* a poll with max_polls = 2 has timed out after exactly 2 fetches
C1_Witness ==
    /\ op = "poll" /\ pc = "done" /\ max_polls = Some(2)
    /\ fetched = <<"QUEUED", "RUNNING">>
    /\ Fetches = 2
    /\ result.kind = "TimeoutError"

\* C2: whenever a fetch of the poll has returned a job with status FAILED,
\* the poll has raised SoraClientError, its message contains the job's
\* failure_reason, and no job is returned.
C2_FailedRaisesWithReason ==
    (op = "poll" /\ job # None /\ job[1].status = "FAILED") =>
        /\ pc = "done"
        /\ result.kind = "SoraClientError"
        /\ job[1].failure_reason # None =>
               Contains(result.message, <<job[1].failure_reason[1]>>)
        /\ result.job = None

\* a job fetched as FAILED with failure_reason "quota exceeded" has ended the
\* poll with a client error naming the reason
C2_Witness ==
    /\ op = "poll" /\ pc = "done"
    /\ job # None /\ job[1].status = "FAILED"
    /\ job[1].failure_reason = Some("quota exceeded")
    /\ result.kind = "SoraClientError"
    /\ Contains(result.message, <<"quota exceeded">>)

\* C3: the poll ends at the first fetch whose status is terminal and issues
\* no fetch after it: a terminal status is only ever the last one fetched, the
\* call is then over and every fetch issued has been answered; when that
\* status is SUCCEEDED the call returns that job with exactly its generations.
C3_ReturnsAtFirstTerminal ==
    op = "poll" =>
        /\ \A i \in 1..Len(fetched) :
               fetched[i] \in TerminalStatuses =>
                   /\ i = Len(fetched)
                   /\ pc = "done"
                   /\ Fetches = Len(fetched)
        /\ (job # None /\ job[1].status = "SUCCEEDED") =>
               /\ result.kind = "return"
               /\ result.job = job
               /\ result.generations = job[1].generations

\* a poll has returned a SUCCEEDED job with two generations at its second fetch
C3_Witness ==
    /\ op = "poll" /\ pc = "done"
    /\ fetched = <<"RUNNING", "SUCCEEDED">>
    /\ Fetches = 2
    /\ result.kind = "return"
    /\ Len(result.generations) = 2

\* C4: whenever a fetch of the poll has returned a job with status
\* CANCELLED, the poll has returned that job with an empty generation list,
\* whatever generations the fetched job carries.
C4_CancelledReturnsEmptyList ==
    (op = "poll" /\ job # None /\ job[1].status = "CANCELLED") =>
        /\ pc = "done"
        /\ result.kind = "return"
        /\ result.job = job
        /\ result.generations = <<>>

----------------------------------------------------------------------------
(* Properties of the validators and of create_video_generation_job *)

NineResolutions ==
    {<<480, 480>>, <<480, 854>>, <<854, 480>>, <<720, 720>>, <<720, 1280>>,
     <<1280, 720>>, <<1080, 1080>>, <<1080, 1920>>, <<1920, 1080>>}

\* the variant ceiling of a resolution as the specification states it
Ceiling(w, h) ==
    IF w >= 1080 \/ h >= 1080 THEN 1 ELSE IF w >= 720 \/ h >= 720 THEN 2 ELSE 4

\* the request dict the running call validates
Validated == IF request.form = "object" THEN to_dict(request.data) ELSE request.data

HasResolution(d) == d.width # None /\ d.height # None

Supported(d) == HasResolution(d) /\ <<d.width[1], d.height[1]>> \in NineResolutions

\* the variant count validate_request checks: n_variants, 1 when absent
CountOf(d) == IF d.n_variants = None THEN 1 ELSE d.n_variants[1]

\* the request satisfies the three constraints
Acceptable(d) ==
    /\ Supported(d)
    /\ d.n_seconds # None
    /\ d.n_seconds[1] \in 1..20
    /\ CountOf(d) >= 1
    /\ CountOf(d) <= Ceiling(d.width[1], d.height[1])

\* C5: a call of create_video_generation_job that ends without the request
\* having reached the network (the request was rejected) has raised
\* SoraClientError carrying the validation message; no other exception type
\* leaves the call.
C5_InvalidRequestRaisesClientError ==
    (op = "create" /\ pc = "done" /\ wire = <<>>) =>
        /\ result.kind = "SoraClientError"
        /\ Contains(result.message, <<"Invalid request parameters: ">>)
        /\ Contains(result.message, validate_request(Validated).outcome.message)

\* C6: a request that does not satisfy the constraints never reaches the
\* network: the call of create_video_generation_job given it has not gone
\* through _get_session and has issued no request.
C6_RejectedRequestStaysOffTheNetwork ==
    (op = "create" /\ ~Acceptable(Validated)) =>
        /\ pc = "done"
        /\ got_session = FALSE
        /\ wire = <<>>

\* on a client that holds no session, a request of 640x640 has been rejected
\* with the client error, no session created and nothing sent
C6_Witness ==
    /\ op = "create" /\ pc = "done"
    /\ Validated.width = Some(640)
    /\ result.kind = "SoraClientError"
    /\ Contains(result.message, <<"Invalid request parameters: ">>)
    /\ session = None /\ got_session = FALSE /\ wire = <<>>

\* C7: validate_request returns exactly when the resolution is one of the nine
\* pairs, the duration is in 1..20 and the variant count is at least 1 and at
\* most the ceiling of the resolution; in every other case it raises
\* ValidationError.
C7_AcceptsExactlyTheConstraints ==
    (op = "validate_request" /\ pc = "done") =>
        /\ result.kind = "return" <=> Acceptable(Validated)
        /\ ~Acceptable(Validated) => result.kind = "ValidationError"

\* C7, for the requests that state their duration: the same statement holds
C7_AcceptsExactlyWhenDurationStated ==
    (op = "validate_request" /\ pc = "done" /\ Validated.n_seconds # None)
        => C7_AcceptsExactlyTheConstraints

\* C8: validate_request checks resolution, then duration, then variants, and
\* stops at the first violation: an unsupported resolution raises the
\* resolution error with no other check evaluated, a bad duration of a
\* supported resolution raises the duration error with the variants check not
\* evaluated, and only then a bad variant count raises the variants error.
C8_FirstViolationOnly ==
    (op = "validate_request" /\ pc = "done") =>
        LET d == Validated
        IN  /\ ~Supported(d) =>
                /\ result.kind = "ValidationError"
                /\ result.message[1] = "Resolution "
                /\ checked = <<"resolution">>
            /\ (Supported(d) /\ d.n_seconds # None /\ d.n_seconds[1] \notin 1..20) =>
                /\ result.kind = "ValidationError"
                /\ result.message[1] \in {"Duration must be at least ", "Duration must be at most "}
                /\ checked = <<"resolution", "duration">>
            /\ (Supported(d) /\ d.n_seconds # None /\ d.n_seconds[1] \in 1..20) =>
                /\ checked = <<"resolution", "duration", "variants">>
                /\ result.kind = "ValidationError" =>
                       result.message[Len(result.message)] \in
                           {"Number of variants must be greater than 0.", " variants."}

\* 640x640 for 21 seconds and 5 variants violates all three constraints and
\* has raised the resolution error alone
C8_Witness ==
    /\ op = "validate_request" /\ pc = "done"
    /\ Validated.width = Some(640) /\ Validated.height = Some(640)
    /\ Validated.n_seconds = Some(21) /\ Validated.n_variants = Some(5)
    /\ result.kind = "ValidationError"
    /\ result.message[1] = "Resolution "
    /\ checked = <<"resolution">>

\* C9: for every width and height, supported or not, the variant ceiling is
\* 1 if either dimension is >= 1080, else 2 if either is >= 720, else 4, and
\* validate_variants raises ValidationError exactly when the count is <= 0 or
\* above that ceiling, and returns otherwise.
C9_VariantCeiling ==
    (op = "validate_variants" /\ pc = "done") =>
        LET w == vargs[1]
            h == vargs[2]
            c == vargs[3]
        IN  /\ get_max_variants_for_resolution(w, h) = Ceiling(w, h)
            /\ result.kind = "ValidationError" <=> (c <= 0 \/ c > Ceiling(w, h))
            /\ result.kind \in {"ValidationError", "return"}

\* validate_variants(1920, 1080, 2) has been rejected
C9_Witness ==
    /\ op = "validate_variants" /\ pc = "done"
    /\ vargs = <<1920, 1080, 2>>
    /\ result.kind = "ValidationError"

\* the decimal forms of the numbers a valid request can carry
Decimal(n) ==
    CASE n = 1 -> "1" [] n = 2 -> "2" [] n = 3 -> "3" [] n = 4 -> "4" [] n = 5 -> "5"
      [] n = 7 -> "7" [] n = 20 -> "20"
      [] n = 480 -> "480" [] n = 720 -> "720" [] n = 854 -> "854"
      [] n = 1080 -> "1080" [] n = 1280 -> "1280" [] n = 1920 -> "1920"

\* C10: for every request that passes validation, the body POSTed to "jobs"
\* has exactly the fields model, prompt, height, width, n_seconds and
\* n_variants; model is the deployment name and the other four are the
\* decimal strings of the request's height, width, duration and variant
\* count (the count being 1 when the request states none).
C10_WirePayload ==
    (op = "create" /\ wire # <<>>) =>
        LET d == Validated
            body == wire[1].body[1]
            count == IF d.n_variants # None THEN d.n_variants[1]
                     ELSE IF d.variants # None THEN d.variants[1] ELSE 1
        IN  /\ Len(wire) = 1
            /\ wire[1].method = "POST"
            /\ wire[1].path = "jobs"
            /\ DOMAIN body = {"model", "prompt", "height", "width", "n_seconds", "n_variants"}
            /\ body.model = deployment_name
            /\ body.prompt = d.prompt
            /\ body.height = Decimal(d.height[1])
            /\ body.width = Decimal(d.width[1])
            /\ body.n_seconds = Decimal(d.n_seconds[1])
            /\ body.n_variants = Decimal(count)

\* the request object of 1080x1080, 5 seconds, 1 variant has been POSTed with
\* the strings "1080", "1080", "5", "1"
C10_Witness ==
    /\ op = "create" /\ pc = "create_posting"
    /\ request.form = "object"
    /\ request.data.width = 1080 /\ request.data.height = 1080
    /\ request.data.n_seconds = 5 /\ request.data.n_variants = 1
    /\ wire = <<HttpRequest("POST", "jobs",
                            Some([model |-> "sora", prompt |-> Some("a cat"),
                                  height |-> "1080", width |-> "1080",
                                  n_seconds |-> "5", n_variants |-> "1"]))>>

----------------------------------------------------------------------------
(* Claims about the responses and the session *)

Is2xx(status) == status \in 200..299

\* the finished call received a response
Answered(name) == op = name /\ pc = "done" /\ last_response # None

JsonTyped(r) == \E i \in 1..Len(r.content_type) : r.content_type[i] = "application/json"

HoldsOpenSession == session # None /\ sessions[session[1]] = "open"

\* C11, as stated: delete_video_generation_job returns True for every response
\* with a 2xx status, whatever its content type and body are.
C11_DeleteSucceedsOnEvery2xx ==
    Answered("delete_video_generation_job") /\ Is2xx(last_response[1].status)
        => result = ReturnedValue(TRUE)

\* C11, amended: delete_video_generation_job returns True for every 204
\* response whatever its content type and body are, and for every other 2xx
\* response except one that is typed application/json with a body that is not
\* JSON, for which it raises SoraClientError "Invalid JSON response: <body>"
\* with the response's status.
C11_DeleteSucceedsUnlessJsonUnparsable ==
    Answered("delete_video_generation_job") /\ Is2xx(last_response[1].status)
        => LET r == last_response[1]
           IN  IF r.status # 204 /\ JsonTyped(r) /\ r.body.kind = "text"
               THEN /\ result.kind = "SoraClientError"
                    /\ result.message = <<"Invalid JSON response: ", r.body.text>>
                    /\ result.status_code = Some(r.status)
               ELSE result = ReturnedValue(TRUE)

\* a 204 typed application/json whose body does not parse has been answered True
C11_Witness ==
    /\ Answered("delete_video_generation_job")
    /\ last_response[1].status = 204
    /\ JsonTyped(last_response[1])
    /\ last_response[1].body.kind = "text"
    /\ result = ReturnedValue(TRUE)

\* C12, as stated: over any sequence of operations (requests, close, scoped
\* exit) the client creates its session at most once.
C12_SessionCreatedAtMostOnce == Len(sessions) <= 1

\* C12, amended: the client creates a session only in a request made while it
\* holds no open session, one session at a time; a request made while it holds
\* an open session reuses that session.  Once close() or a scoped exit has
\* closed the session, the next request creates a new one.
C12_CreatesOnlyWithoutOpenSession ==
    [][/\ Len(sessions') > Len(sessions)
           => /\ ~HoldsOpenSession
              /\ Len(sessions') = Len(sessions) + 1
              /\ session' = Some(Len(sessions'))
              /\ got_session'
       /\ (HoldsOpenSession /\ got_session' /\ ~got_session)
           => session' = session /\ sessions' = sessions]_vars

\* after a close, a request has created the second session and holds it
C12_Witness ==
    /\ sessions = <<"closed", "open">>
    /\ session = Some(2)
    /\ got_session
    /\ pc = "requesting"

\* C14: when the scope of async with has been left, normally or by an
\* exception, every session the client created is closed and the client holds
\* no open session.
C14_ScopeExitClosesSession ==
    op = "__aexit__" /\ pc = "done"
        => /\ ~HoldsOpenSession
           /\ \A i \in 1..Len(sessions) : sessions[i] = "closed"

\* the scope has been left by an exception thrown into a waiting call, and the
\* session created inside is closed
C14_Witness ==
    /\ op = "__aexit__" /\ pc = "done"
    /\ vargs = <<"CancelledError">>
    /\ sessions = <<"closed">>
    /\ session = None

ListedOperations ==
    {"create", "get_video_generation_job", "list_video_generation_jobs",
     "delete_video_generation_job", "get_video_content", "get_gif_content"}

\* C15: a network operation that receives a response whose status is not 2xx
\* raises SoraClientError with a non-empty message and with status_code equal
\* to the status of the response.
C15_ErrorCarriesMessageAndStatus ==
    \A name \in ListedOperations :
        Answered(name) /\ ~Is2xx(last_response[1].status)
            => /\ result.kind = "SoraClientError"
               /\ result.message # <<>>
               /\ result.status_code = Some(last_response[1].status)

\* C16: a network operation, job creation included, that receives a response
\* whose status is not 2xx and whose body is not JSON raises a client error
\* whose message contains the raw text of the body.
C16_RawBodyInMessage ==
    \A name \in ListedOperations :
        (/\ Answered(name)
         /\ ~Is2xx(last_response[1].status)
         /\ last_response[1].body.kind = "text")
            => /\ result.kind = "SoraClientError"
               /\ \E i \in 1..Len(result.message) :
                      result.message[i] = last_response[1].body.text

\* C19: when save_video_content / save_gif_content has fetched the bytes and
\* the write fails, the caller receives a client error that is not the error
\* of a fetch failure, and the error carries the bytes that were fetched.
C19_WriteFailureKeepsBytes ==
    \A name \in SaveOperations :
        (/\ Answered(name)
         /\ Is2xx(last_response[1].status)
         /\ result.kind # "return")
            => /\ result.kind = "SoraClientError"
               /\ result.message[1] \in {"Error saving video content: ",
                                          "Error saving GIF content: "}
               /\ \/ result.value = Some(last_response[1].body.data)
                  \/ result.error_details = Some(last_response[1].body.data)

----------------------------------------------------------------------------
(* Claims about concurrent use *)

Requested(t) == tasks[t].pc \in {"requesting", "done"} /\ tasks[t].op \in TaskOperations

NoCloseCalled == \A t \in Tasks : tasks[t].op # "close"

\* C13: when tasks that run concurrently on one client make the first use of
\* the session (no close() has been called), exactly one session has been
\* created, every task that has sent a request uses it, and the client holds
\* it: no session is open without being held by the client.
C13_OneSessionForConcurrentFirstUse ==
    (NoCloseCalled /\ \E t \in Tasks : Requested(t))
        => /\ Len(sessions) = 1
           /\ session = Some(1)
           /\ sessions[1] = "open"
           /\ \A t \in Tasks : Requested(t) => tasks[t].session = Some(1)

\* all the tasks wait for their responses at once on the one session
C13_Witness ==
    /\ NoCloseCalled
    /\ \A t \in Tasks : tasks[t].pc = "requesting" /\ tasks[t].session = Some(1)
    /\ sessions = <<"open">>

----------------------------------------------------------------------------
(* Claims about the command-line workflow *)

ContentRequests == {"video", "gif"}

\* C17: in the command-line workflow no request for the video or the GIF of a
\* generation is sent after the request that deletes its job.
C17_NoContentFetchAfterDelete ==
    \A a \in 1..Len(cli.log), b \in 1..Len(cli.log) :
        (/\ a < b
         /\ cli.log[a].kind = "delete"
         /\ cli.log[b].kind \in ContentRequests)
            => cli.log[a].of # cli.log[b].of

\* the videos and GIFs of two generations were requested, then the job deleted
C17_Witness ==
    /\ Len(cli.log) >= 5
    /\ cli.log[Len(cli.log)].kind = "delete"
    /\ Cardinality({a \in 1..Len(cli.log) : cli.log[a].kind \in ContentRequests}) = 4

DownloadOver == cli.pc \in {"cleanup", "exit", "end"} /\ cli.generations # <<>>

\* C18: when the download step is over, the video path of every generation
\* whose video was saved is in the list the step reports, also when the GIF of
\* that generation failed, and a GIF failure has not kept the step from
\* treating every generation (one video request per generation).
C18_VideoReportedDespiteGifFailure ==
    DownloadOver
        => /\ \A g \in cli.saved :
                  /\ cli.reported # None
                  /\ \E k \in 1..Len(cli.reported[1]), now \in Timestamps :
                         cli.reported[1][k] = VideoPath([id |-> g], now)
           /\ cli.gif_failed # {}
                  => Cardinality({a \in 1..Len(cli.log) : cli.log[a].kind = "video"})
                         = Len(cli.generations)

\* the GIF of the first of two generations failed and both videos are reported
C18_Witness ==
    /\ DownloadOver
    /\ cli.gif_failed = {1}
    /\ cli.saved = {1, 2}
    /\ cli.reported = Some(<<"./outputs/video_1_20240101_120000.mp4",
                             "./outputs/video_2_20240101_120000.mp4",
                             "./outputs/gif_2_20240101_120000.gif">>)

----------------------------------------------------------------------------
(* Claims about termination *)

\* C20: under fair scheduling of the sleep-then-fetch loop, a poll with a
\* finite max_polls ends; a poll with max_polls = None ends once the job on
\* the service has reached a terminal status (followed for up to MaxFetches
\* fetches); and a poll that has not ended has had every one of its fetches
\* answered with a non-terminal status.
C20_PollTerminates ==
    /\ (op = "poll" /\ max_polls # None) ~> (pc = "done")
    /\ (/\ op = "poll" /\ max_polls = None
        /\ remote \in TerminalStatuses
        /\ Len(fetched) < MaxFetches) ~> (pc = "done")
    /\ []((op = "poll" /\ pc # "done")
              => /\ result.kind = "none"
                 /\ \A i \in 1..Len(fetched) : fetched[i] \notin TerminalStatuses)

\* an unlimited poll has ended at its third fetch, the first to find the job
\* in a terminal status
C20_Witness ==
    /\ op = "poll" /\ max_polls = None /\ pc = "done"
    /\ fetched = <<"QUEUED", "RUNNING", "SUCCEEDED">>
    /\ remote = "SUCCEEDED"
    /\ result.kind = "return"

----------------------------------------------------------------------------
(* Claims about propagation and about what is transmitted *)

\* C21: when a fetch of the poll raises a client error, the poll is over and
\* has raised that same error, the failed fetch is the last request issued
\* and no sleep has followed it, whatever max_polls is: the error of a
\* response is the one get_video_generation_job raises for it, and without a
\* response it is the client error of the failed request.
C21_FetchErrorPropagatesAtOnce ==
    /\ (op = "poll" /\ last_response # None)
           => /\ pc = "done"
              /\ result = get_video_generation_job(last_response[1])
              /\ result.kind = "SoraClientError"
              /\ Fetches = Len(fetched) + 1
              /\ polls = Len(fetched)
    /\ (/\ op = "poll" /\ pc = "done" /\ last_response = None
        /\ result.kind = "SoraClientError"
        /\ (job = None \/ job[1].status # "FAILED"))
           => /\ result \in FetchErrors
              /\ Fetches = Len(fetched) + 1
              /\ polls = Len(fetched)

\* an unlimited poll whose third fetch was answered 404 has raised the error
\* of that response after three fetches and two sleeps
C21_Witness ==
    /\ op = "poll" /\ pc = "done" /\ max_polls = None
    /\ last_response # None /\ last_response[1].status = 404
    /\ result.status_code = Some(404)
    /\ Len(fetched) = 2 /\ Fetches = 3 /\ polls = 2

\* the decimal forms of 1 to 20
SmallDecimals ==
    <<"1", "2", "3", "4", "5", "6", "7", "8", "9", "10",
      "11", "12", "13", "14", "15", "16", "17", "18", "19", "20">>

\* C22: the payload create_video_generation_job transmits carries the string
\* forms of the values validate_request checked (width, height, n_seconds,
\* and n_variants with 1 when absent), so its variant count is within the
\* ceiling of its resolution and its duration within MIN_DURATION..MAX_DURATION.
C22_PayloadIsWhatWasValidated ==
    (op = "create" /\ wire # <<>>) =>
        LET d == Validated
            body == wire[1].body[1]
        IN  /\ body.width = Decimal(d.width[1])
            /\ body.height = Decimal(d.height[1])
            /\ body.n_seconds = Decimal(d.n_seconds[1])
            /\ body.n_variants = Decimal(CountOf(d))
            /\ \E k \in 1..Ceiling(d.width[1], d.height[1]) :
                   body.n_variants = SmallDecimals[k]
            /\ \E k \in MIN_DURATION..MAX_DURATION : body.n_seconds = SmallDecimals[k]

----------------------------------------------------------------------------
(* Claims about close() among concurrent operations *)

\* C23: in every interleaving of close() with other operations on the client,
\* every session the client has created is the one it holds or is closed, and
\* once no close() is under way any more, no session that the client holds or
\* has handed to a task is open unless the client holds it.
C23_NoOpenSessionUnheld ==
    /\ \A i \in 1..Len(sessions) : sessions[i] = "open" => session = Some(i)
    /\ (\A t \in Tasks : tasks[t].pc # "closing")
           => \A t \in Tasks :
                  (tasks[t].session # None /\ sessions[tasks[t].session[1]] = "open")
                      => session = tasks[t].session

----------------------------------------------------------------------------
(* Claims about the workflow of the command line *)

\* the requests of one kind that the workflow has issued, as positions in its log
LogOf(kind) == {i \in 1..Len(cli.log) : cli.log[i].kind = kind}

\* main() went through monitor_job (neither --delete-job nor --list-only)
Monitored == LogOf("poll") # {}

\* monitor_job returned a job: polling ended with SUCCEEDED or CANCELLED
PollReturnedJob == Monitored /\ cli.pc # "monitor" /\ cli.job # None

\* C24: when main() has ended in a mode other than --delete-job and
\* --list-only, the job was deleted exactly when polling returned a job, and
\* then once and after every download request; when polling or the creation
\* ended with a client error, no delete and no download request was issued.
C24_DeletedExactlyWhenPollReturned ==
    (/\ cli.pc = "end"
     /\ ~cli.args.delete_job
     /\ ~cli.args.list_only)
        => IF PollReturnedJob
           THEN /\ Cardinality(LogOf("delete")) = 1
                /\ cli.log[Len(cli.log)].kind = "delete"
                /\ cli.log[Len(cli.log)].of = cli.job[1]
           ELSE LogOf("delete") \cup LogOf("video") \cup LogOf("gif") = {}

\* C24, for the runs of main() out of which no exception escaped: the same
\* statement holds
C24_DeletedUnlessExceptionEscaped ==
    cli.escaped = None => C24_DeletedExactlyWhenPollReturned

====
